---- MODULE Spec2Model ----
(***************************************************************************)
(* ncrs: the GFF annotation parser (src/gff.rs), the FASTA sequence parser *)
(* (src/fasta.rs) and the data model they fill (src/data.rs).              *)
(*                                                                         *)
(* Text is modelled as sequences of one-character strings, so that the     *)
(* matching, splitting and number parsing of the code are computed and not *)
(* assumed.  A GFF line is modelled by the list of its tab-free pieces:    *)
(* every string is the tab-join of exactly one non-empty list of tab-free  *)
(* pieces, and str::split('\t') returns that list.                         *)
(***************************************************************************)
EXTENDS Integers, Sequences, FiniteSets, TLC

VARIABLES
    gffInput,      \* the lines reader.lines() yields, each a list of tab-free pieces
    gffPc,         \* "loop" while load_gff_file iterates, "done" once it returned
    gffIdx,        \* enumerate() index i of the next line (= lines consumed so far)
    annotations,   \* the local Vec<Annotation> of load_gff_file
    gffResult,     \* the Result<Vec<Annotation>> load_gff_file returns
    fastaInput,    \* the raw lines read_line yields, terminators included
    fastaPc,       \* "loop", "eof" (after break), "done" (returned), "encoded"
    fastaPos,      \* number of raw lines consumed so far
    scaffolds,     \* the local Vec<Scaffold> of load_fasta
    builder,       \* the local Option<ScaffoldBuilder> of load_fasta
    fastaResult,   \* the Result<Vec<Scaffold>> load_fasta returns
    encoded        \* Into<u8> applied to every symbol of the returned scaffolds

gffVars == <<gffInput, gffPc, gffIdx, annotations, gffResult>>
fastaVars == <<fastaInput, fastaPc, fastaPos, scaffolds, builder, fastaResult, encoded>>
vars == <<gffInput, gffPc, gffIdx, annotations, gffResult,
          fastaInput, fastaPc, fastaPos, scaffolds, builder, fastaResult, encoded>>

(***************************************************************************)
(* Bounds of the model.                                                    *)
(***************************************************************************)
MaxGffLines == 2
MaxFastaLines == 4

Min(a, b) == IF a < b THEN a ELSE b

(***************************************************************************)
(* src/gff.rs                                                              *)
(***************************************************************************)
GFF_NUM_COLUMNS == 9

DigitChars == {"0", "1", "2", "3", "4", "5", "6", "7", "8", "9"}

DigitValue(c) ==
    CASE c = "0" -> 0 [] c = "1" -> 1 [] c = "2" -> 2 [] c = "3" -> 3
      [] c = "4" -> 4 [] c = "5" -> 5 [] c = "6" -> 6 [] c = "7" -> 7
      [] c = "8" -> 8 [] c = "9" -> 9

\* The digits of an unsigned str::parse: one leading '+' is dropped ('-' is
\* not a sign for an unsigned type and stays, to be rejected as a digit).
ParseDigits(tok) ==
    IF Len(tok) > 0 /\ tok[1] = "+" THEN Tail(tok) ELSE tok

\* str::parse::<u32>() / ::<usize>() succeeds: the token is not empty, is not
\* a lone sign and holds decimal digits only.  The tokens of the input domain
\* have at most two digits, so the PosOverflow error of either width does not
\* arise and is not modelled.
ParseOk(tok) ==
    /\ Len(tok) > 0
    /\ Len(ParseDigits(tok)) > 0
    /\ \A k \in 1..Len(ParseDigits(tok)) : ParseDigits(tok)[k] \in DigitChars

RECURSIVE DecimalValue(_)
DecimalValue(ds) ==
    IF Len(ds) = 0 THEN 0
    ELSE 10 * DecimalValue(SubSeq(ds, 1, Len(ds) - 1)) + DigitValue(ds[Len(ds)])

\* The value of a successful parse.
ParseValue(tok) == DecimalValue(ParseDigits(tok))

TokStartCodon == <<"s", "t", "a", "r", "t", "_", "c", "o", "d", "o", "n">>
TokStopCodon == <<"s", "t", "o", "p", "_", "c", "o", "d", "o", "n">>
TokCDS == <<"C", "D", "S">>
TokExon == <<"e", "x", "o", "n">>

NoToken == <<>>

\* anyhow errors of parse_gff_line: the kind of the root cause, the token it
\* quotes and the two numbers it reports (0 where the message has none).
GffError(kind, token, a, b) == [kind |-> kind, token |-> token, a |-> a, b |-> b]

NoError == GffError("none", NoToken, 0, 0)

\* Option<u32> of the score field.
NoScore == [some |-> FALSE, val |-> 0]
SomeScore(v) == [some |-> TRUE, val |-> v]

\* Annotation::new
Annotation(scaffold, source, feature, score, strand, phase, start, end, attributes) ==
    [scaffold |-> scaffold, source |-> source, feature |-> feature, score |-> score,
     strand |-> strand, phase |-> phase, start |-> start, end |-> end,
     attributes |-> attributes]

NoAnnotation == Annotation(NoToken, NoToken, "none", NoScore, "none", "None", 0, 0, NoToken)

LineOk(ann) == [ok |-> TRUE, ann |-> ann, err |-> NoError]
LineErr(err) == [ok |-> FALSE, ann |-> NoAnnotation, err |-> err]

\* Faulty variant of SplitTake: the split without take(9).
SplitAll(line) == line

\* line.split('\t').take(9).collect()
SplitTake(line) == SubSeq(line, 1, Min(Len(line), 9))

\* Faulty variant of ParsePhase: the phase is parsed as a number, so that
\* "01" and "+2" are phases too.
ParsePhaseNumeric(phase) ==
    IF ParseOk(phase) /\ ParseValue(phase) <= 2
    THEN CASE ParseValue(phase) = 0 -> "Zero"
           [] ParseValue(phase) = 1 -> "One"
           [] ParseValue(phase) = 2 -> "Two"
    ELSE "None"

\* match phase.as_str()
ParsePhase(phase) ==
    CASE phase = <<"0">> -> "Zero"
      [] phase = <<"1">> -> "One"
      [] phase = <<"2">> -> "Two"
      [] OTHER -> "None"

StrandOk(strand) == strand = <<"+">> \/ strand = <<"-">>

\* match strand.as_str()
ParseStrand(strand) == IF strand = <<"+">> THEN "Positive" ELSE "Negative"

ScoreOk(score) == score = <<".">> \/ ParseOk(score)

\* match score.as_str()
ParseScore(score) == IF score = <<".">> THEN NoScore ELSE SomeScore(ParseValue(score))

\* Faulty variant of ParseFeature: the last arm gives Exon instead of the
\* error.
ParseFeatureDefaultExon(feature) ==
    CASE feature = TokStartCodon -> "StartCodon"
      [] feature = TokStopCodon -> "StopCodon"
      [] feature = TokCDS -> "CDS"
      [] OTHER -> "Exon"

\* match feature.as_str(): the variant, or "Unrecognized" for the arm that
\* returns the error.
ParseFeature(feature) ==
    CASE feature = TokStartCodon -> "StartCodon"
      [] feature = TokStopCodon -> "StopCodon"
      [] feature = TokCDS -> "CDS"
      [] feature = TokExon -> "Exon"
      [] OTHER -> "Unrecognized"

FeatureOk(feature) == ParseFeature(feature) # "Unrecognized"

\* Faulty variant of StartIsZero: a comparison that no unsigned value
\* satisfies.
StartIsNegative(start) == start < 0

\* if start == 0 { return Err(..) }
StartIsZero(start) == start = 0

\* let start = start - 1;
ZeroBasedStart(start) == start - 1

\* Faulty variant of StartNotBeforeEnd: the comparison is strict.
StartAfterEnd(start, end) == start > end

\* if start >= end { return Err(..) }
StartNotBeforeEnd(start, end) == start >= end

\* The checks of parse_gff_line after the nine tokens are popped, in the
\* order of the code: strand, score, end, start, start == 0, start >= end,
\* feature.
ParseFields(scaffold, source, feature, start, end, score, strand, phase, attributes) ==
    IF ~StrandOk(strand) THEN LineErr(GffError("InvalidStrand", strand, 0, 0))
    ELSE IF ~ScoreOk(score) THEN LineErr(GffError("ScoreNotInteger", score, 0, 0))
    ELSE IF ~ParseOk(end) THEN LineErr(GffError("EndNotInteger", end, 0, 0))
    ELSE IF ~ParseOk(start) THEN LineErr(GffError("StartNotInteger", start, 0, 0))
    ELSE IF StartIsZero(ParseValue(start)) THEN LineErr(GffError("StartIsZero", NoToken, 0, 0))
    ELSE IF StartNotBeforeEnd(ZeroBasedStart(ParseValue(start)), ParseValue(end))
         THEN LineErr(GffError("StartNotBeforeEnd", NoToken,
                               ZeroBasedStart(ParseValue(start)), ParseValue(end)))
    ELSE IF ~FeatureOk(feature) THEN LineErr(GffError("UnrecognizedFeature", feature, 0, 0))
    ELSE LineOk(Annotation(scaffold, source, ParseFeature(feature), ParseScore(score),
                           ParseStrand(strand), ParsePhase(phase),
                           ZeroBasedStart(ParseValue(start)), ParseValue(end),
                           attributes))

\* if num_columns != GFF_NUM_COLUMNS { return Err(..) }
WrongColumnCount(num_columns) == num_columns # GFF_NUM_COLUMNS

parse_gff_line(line) ==
    LET tokens == SplitTake(line)
        num_columns == Len(tokens)
    IN  IF WrongColumnCount(num_columns)
        THEN LineErr(GffError("ColumnCount", NoToken, GFF_NUM_COLUMNS, num_columns))
        ELSE ParseFields(tokens[1], tokens[2], tokens[3], tokens[4], tokens[5],
                         tokens[6], tokens[7], tokens[8], tokens[9])

\* Result<Vec<Annotation>> of load_gff_file.  An error carries the context
\* "Failed to parse line {i + 1} of file .." and the root cause.
GffRunning == [state |-> "running", value |-> <<>>, line |-> 0, root |-> NoError]
GffOk(anns) == [state |-> "ok", value |-> anns, line |-> 0, root |-> NoError]
GffErr(line, root) == [state |-> "err", value |-> <<>>, line |-> line, root |-> root]

\* The 1-based line number of the context: i + 1.
ContextLine(i) == i + 1

(***************************************************************************)
(* The input domain of the GFF parser.                                     *)
(***************************************************************************)
FeatureTokens == {TokStartCodon, TokStopCodon, TokCDS, TokExon, <<"X", "X", "X">>}
StrandTokens == {<<"+">>, <<"-">>, <<"?">>}
ScoreTokens == {<<".">>, <<"7">>, <<"-", "1">>}
StartTokens == {<<"0">>, <<"1">>, <<"2">>, <<"+", "3">>, <<"x">>}
EndTokens == {<<"1">>, <<"2">>, <<"1", "0">>, <<>>}
PhaseTokens == {<<"0">>, <<"1">>, <<"2">>, <<".">>, <<>>, <<"3">>, <<"0", "1">>}

GffLine(feature, start, end, score, strand, phase) ==
    <<(<<"s">>), (<<"J">>), feature, start, end, score, strand, phase, (<<"a">>)>>

\* Records that differ from a valid one in one or two fields, and lines with
\* fewer and more than nine pieces.
GffLines ==
    {GffLine(f, <<"1">>, <<"2">>, <<".">>, <<"+">>, <<"0">>) : f \in FeatureTokens}
    \cup {GffLine(f, <<"1">>, <<"2">>, <<".">>, s, <<"0">>) :
        f \in {TokExon, <<"X", "X", "X">>}, s \in StrandTokens}
    \cup {GffLine(TokExon, b, e, <<".">>, <<"+">>, <<".">>) :
        b \in StartTokens, e \in EndTokens}
    \cup {GffLine(<<"X", "X", "X">>, b, <<"1">>, <<".">>, <<"-">>, <<".">>) :
        b \in {<<"0">>, <<"2">>}}
    \cup {GffLine(TokCDS, <<"1">>, <<"1">>, <<".">>, <<"-">>, p) : p \in PhaseTokens}
    \cup {GffLine(TokStopCodon, b, <<"2">>, sc, <<"+">>, <<"2">>) :
        sc \in ScoreTokens, b \in {<<"0">>, <<"2">>}}
    \cup {<<(<<>>)>>,
          SubSeq(GffLine(TokExon, <<"1">>, <<"2">>, <<".">>, <<"+">>, <<"0">>), 1, 8),
          GffLine(TokExon, <<"1">>, <<"2">>, <<".">>, <<"+">>, <<"0">>) \o <<(<<"b">>)>>,
          GffLine(TokExon, <<"0">>, <<"2">>, <<".">>, <<"+">>, <<"0">>)
              \o <<(<<"b">>), (<<"c">>)>>}

RECURSIVE SeqsUpTo(_, _)
SeqsUpTo(S, n) ==
    IF n = 0 THEN {<<>>}
    ELSE LET shorter == SeqsUpTo(S, n - 1)
         IN  shorter \cup {Append(q, x) : q \in {r \in shorter : Len(r) = n - 1}, x \in S}

(***************************************************************************)
(* load_gff_file                                                           *)
(***************************************************************************)
GffIdle ==
    /\ gffInput = <<>>
    /\ gffPc = "idle"
    /\ gffIdx = 0
    /\ annotations = <<>>
    /\ gffResult = GffRunning

FastaIdle ==
    /\ fastaInput = <<>>
    /\ fastaPc = "idle"
    /\ fastaPos = 0
    /\ scaffolds = <<>>
    /\ builder = [some |-> FALSE, name |-> <<>>, sequence |-> <<>>]
    /\ fastaResult = [state |-> "running", value |-> <<>>, kind |-> "none", char |-> ""]
    /\ encoded = <<>>

InitGff ==
    /\ gffInput \in SeqsUpTo(GffLines, MaxGffLines)
    /\ gffPc = "loop"
    /\ gffIdx = 0
    /\ annotations = <<>>
    /\ gffResult = GffRunning
    /\ FastaIdle

\* One iteration of the for loop whose line parses: the annotation is pushed.
GffLineParsed ==
    /\ gffPc = "loop"
    /\ gffIdx < Len(gffInput)
    /\ parse_gff_line(gffInput[gffIdx + 1]).ok
    /\ annotations' = Append(annotations, parse_gff_line(gffInput[gffIdx + 1]).ann)
    /\ gffIdx' = gffIdx + 1
    /\ UNCHANGED <<gffInput, gffPc, gffResult>>
    /\ UNCHANGED fastaVars

\* Faulty variant of GffLineFailed: the line that does not parse is skipped
\* and the loop goes on.
GffLineSkipped ==
    /\ gffPc = "loop"
    /\ gffIdx < Len(gffInput)
    /\ ~parse_gff_line(gffInput[gffIdx + 1]).ok
    /\ gffIdx' = gffIdx + 1
    /\ UNCHANGED <<gffInput, gffPc, annotations, gffResult>>
    /\ UNCHANGED fastaVars

\* One iteration whose line does not parse: `?` returns the error with the
\* line context; the local vector is dropped.
GffLineFailed ==
    /\ gffPc = "loop"
    /\ gffIdx < Len(gffInput)
    /\ ~parse_gff_line(gffInput[gffIdx + 1]).ok
    /\ gffResult' = GffErr(ContextLine(gffIdx), parse_gff_line(gffInput[gffIdx + 1]).err)
    /\ gffPc' = "done"
    /\ UNCHANGED <<gffInput, gffIdx, annotations>>
    /\ UNCHANGED fastaVars

\* The iterator is exhausted: Ok(annotations).
GffReturn ==
    /\ gffPc = "loop"
    /\ gffIdx = Len(gffInput)
    /\ gffResult' = GffOk(annotations)
    /\ gffPc' = "done"
    /\ UNCHANGED <<gffInput, gffIdx, annotations>>
    /\ UNCHANGED fastaVars

NextGff == GffLineParsed \/ GffLineFailed \/ GffReturn

SpecGff == InitGff /\ [][NextGff]_vars


(***************************************************************************)
(* src/data.rs: Symbol                                                     *)
(***************************************************************************)
Symbols == {"Other", "Adenine", "Thymine", "Cytosine", "Guanine"}

\* Faulty variant of SymbolCode: the ordinal of the variant in the
\* declaration of the enum.
SymbolCodeDeclarationOrder(symbol) ==
    CASE symbol = "Other" -> 0
      [] symbol = "Adenine" -> 1
      [] symbol = "Thymine" -> 2
      [] symbol = "Cytosine" -> 3
      [] symbol = "Guanine" -> 4

\* impl Into<u8> for Symbol
SymbolCode(symbol) ==
    CASE symbol = "Adenine" -> 0
      [] symbol = "Thymine" -> 1
      [] symbol = "Cytosine" -> 2
      [] symbol = "Guanine" -> 3
      [] symbol = "Other" -> 4

\* Scaffold::new
Scaffold(name, sequence) == [name |-> name, sequence |-> sequence]

(***************************************************************************)
(* src/fasta.rs                                                            *)
(*                                                                         *)
(* LF and CR stand for the characters '\n' and '\r'.  The file is the list *)
(* of the raw lines BufRead::read_line yields: every raw line but the last *)
(* ends with LF, none holds an LF elsewhere, none is empty.                *)
(***************************************************************************)
LF == "LF"
CR == "CR"

EndsWith(line, c) == Len(line) > 0 /\ line[Len(line)] = c
Pop(line) == SubSeq(line, 1, Len(line) - 1)

\* Faulty variant of StripTerminator: the carriage return stays.
StripNewlineOnly(line) == IF EndsWith(line, LF) THEN Pop(line) ELSE line

\* if line.ends_with('\n') { line.pop(); if line.ends_with('\r') { line.pop(); } }
StripTerminator(line) ==
    IF EndsWith(line, LF)
    THEN IF EndsWith(Pop(line), CR) THEN Pop(Pop(line)) ELSE Pop(line)
    ELSE line

\* line.starts_with('>')
StartsWithMarker(line) == Len(line) > 0 /\ line[1] = ">"

\* The closure of extend_from_str: the symbol of a character, "Invalid" for
\* the arm that gives the error.
MapChar(c) ==
    CASE c \in {"A", "a"} -> "Adenine"
      [] c \in {"C", "c"} -> "Cytosine"
      [] c \in {"T", "t"} -> "Thymine"
      [] c \in {"G", "g"} -> "Guanine"
      [] c \in {"N", "n"} -> "Other"
      [] OTHER -> "Invalid"

InvalidPositions(seq) == {k \in 1..Len(seq) : MapChar(seq[k]) = "Invalid"}

\* Faulty variant of FirstInvalidChar: the last character that does not map.
LastInvalidChar(seq) ==
    seq[CHOOSE k \in InvalidPositions(seq) : \A j \in InvalidPositions(seq) : k >= j]

\* collect::<Result<Vec<Symbol>>>() stops at the first Err: its character.
FirstInvalidChar(seq) ==
    seq[CHOOSE k \in InvalidPositions(seq) : \A j \in InvalidPositions(seq) : k <= j]

MapSeq(seq) == [k \in 1..Len(seq) |-> MapChar(seq[k])]

\* Option<ScaffoldBuilder>
NoBuilder == [some |-> FALSE, name |-> <<>>, sequence |-> <<>>]

\* ScaffoldBuilder::new
NewBuilder(name) == [some |-> TRUE, name |-> name, sequence |-> <<>>]

\* ScaffoldBuilder::extend_from_str, when every character maps
ExtendBuilder(b, seq) == [b EXCEPT !.sequence = b.sequence \o MapSeq(seq)]

\* ScaffoldBuilder::build
Build(b) == Scaffold(b.name, b.sequence)

\* Result<Vec<Scaffold>> of load_fasta; an error has the kind of its message
\* and, for "Encountered invalid symbol", the character.
FastaRunning == [state |-> "running", value |-> <<>>, kind |-> "none", char |-> ""]
FastaOk(scs) == [state |-> "ok", value |-> scs, kind |-> "none", char |-> ""]
FastaErr(kind, c) == [state |-> "err", value |-> <<>>, kind |-> kind, char |-> c]

\* The input domain of the FASTA parser.
TerminatedLines ==
    {<<">", "s", LF>>, <<">", "t", " ", "d", CR, LF>>, <<">", LF>>,
     <<"A", "C", "T", "G", "N", LF>>, <<"a", "c", "t", "g", "n", CR, LF>>,
     <<LF>>, <<"g", "X", "Z", LF>>, <<"t", "A", LF>>}

UnterminatedLines == {<<">", "u", CR>>, <<"T", "G", "n">>, <<"A", CR>>}

FastaFiles ==
    {f \o <<l>> : f \in SeqsUpTo(TerminatedLines, MaxFastaLines - 1),
                  l \in TerminatedLines \cup UnterminatedLines}
    \cup {<<>>}

InitFasta ==
    /\ fastaInput \in FastaFiles
    /\ fastaPc = "loop"
    /\ fastaPos = 0
    /\ scaffolds = <<>>
    /\ builder = NoBuilder
    /\ fastaResult = FastaRunning
    /\ encoded = <<>>
    /\ GffIdle

\* The line read_line appended to the cleared buffer, terminator stripped.
CurrentLine == StripTerminator(fastaInput[fastaPos + 1])

\* A header line: the builder in progress, if any, is built and pushed, and
\* a new builder takes the rest of the line as its name.
FastaHeader ==
    /\ fastaPc = "loop"
    /\ fastaPos < Len(fastaInput)
    /\ StartsWithMarker(CurrentLine)
    /\ scaffolds' = IF builder.some THEN Append(scaffolds, Build(builder)) ELSE scaffolds
    /\ builder' = NewBuilder(Tail(CurrentLine))
    /\ fastaPos' = fastaPos + 1
    /\ UNCHANGED <<fastaInput, fastaPc, fastaResult, encoded>>
    /\ UNCHANGED gffVars

\* A body line whose characters all map: the builder's sequence is extended.
FastaBody ==
    /\ fastaPc = "loop"
    /\ fastaPos < Len(fastaInput)
    /\ ~StartsWithMarker(CurrentLine)
    /\ builder.some
    /\ InvalidPositions(CurrentLine) = {}
    /\ builder' = ExtendBuilder(builder, CurrentLine)
    /\ fastaPos' = fastaPos + 1
    /\ UNCHANGED <<fastaInput, fastaPc, scaffolds, fastaResult, encoded>>
    /\ UNCHANGED gffVars

\* A body line with a character that does not map: extend_from_str returns
\* the error before extending, and `?` returns it from load_fasta.
FastaInvalidSymbol ==
    /\ fastaPc = "loop"
    /\ fastaPos < Len(fastaInput)
    /\ ~StartsWithMarker(CurrentLine)
    /\ builder.some
    /\ InvalidPositions(CurrentLine) # {}
    /\ fastaResult' = FastaErr("InvalidSymbol", FirstInvalidChar(CurrentLine))
    /\ fastaPc' = "done"
    /\ UNCHANGED <<fastaInput, fastaPos, scaffolds, builder, encoded>>
    /\ UNCHANGED gffVars

\* Faulty variant of FastaNoBuilder: a body line before the first header is
\* ignored.
FastaNoBuilderSkip ==
    /\ fastaPc = "loop"
    /\ fastaPos < Len(fastaInput)
    /\ ~StartsWithMarker(CurrentLine)
    /\ ~builder.some
    /\ fastaPos' = fastaPos + 1
    /\ UNCHANGED <<fastaInput, fastaPc, scaffolds, builder, fastaResult, encoded>>
    /\ UNCHANGED gffVars

\* A body line while builder is None: "Ivalid FASTA file".
FastaNoBuilder ==
    /\ fastaPc = "loop"
    /\ fastaPos < Len(fastaInput)
    /\ ~StartsWithMarker(CurrentLine)
    /\ ~builder.some
    /\ fastaResult' = FastaErr("InvalidFasta", "")
    /\ fastaPc' = "done"
    /\ UNCHANGED <<fastaInput, fastaPos, scaffolds, builder, encoded>>
    /\ UNCHANGED gffVars

\* read_line returns 0, the loop breaks, and the last builder is built and
\* pushed: Ok(scaffolds).
FastaReturn ==
    /\ fastaPc = "loop"
    /\ fastaPos = Len(fastaInput)
    /\ builder.some
    /\ scaffolds' = Append(scaffolds, Build(builder))
    /\ fastaResult' = FastaOk(Append(scaffolds, Build(builder)))
    /\ fastaPc' = "done"
    /\ UNCHANGED <<fastaInput, fastaPos, builder, encoded>>
    /\ UNCHANGED gffVars

\* read_line returns 0, the loop breaks, and builder is None: "Empty FASTA
\* file".
FastaEmpty ==
    /\ fastaPc = "loop"
    /\ fastaPos = Len(fastaInput)
    /\ ~builder.some
    /\ fastaResult' = FastaErr("EmptyFasta", "")
    /\ fastaPc' = "done"
    /\ UNCHANGED <<fastaInput, fastaPos, scaffolds, builder, encoded>>
    /\ UNCHANGED gffVars

\* The caller converts every symbol of the returned scaffolds with
\* Into<u8>.
EncodeSequence(sequence) == [j \in 1..Len(sequence) |-> SymbolCode(sequence[j])]

EncodeScaffolds ==
    /\ fastaPc = "done"
    /\ fastaResult.state = "ok"
    /\ encoded' = [k \in 1..Len(fastaResult.value) |->
                      EncodeSequence(fastaResult.value[k].sequence)]
    /\ fastaPc' = "encoded"
    /\ UNCHANGED <<fastaInput, fastaPos, scaffolds, builder, fastaResult>>
    /\ UNCHANGED gffVars

NextFasta ==
    \/ FastaHeader
    \/ FastaBody
    \/ FastaInvalidSymbol
    \/ FastaNoBuilder
    \/ FastaReturn
    \/ FastaEmpty
    \/ EncodeScaffolds

SpecFasta == InitFasta /\ [][NextFasta]_vars

(***************************************************************************)
(* Properties of the GFF parser.                                           *)
(*                                                                         *)
(* Lines 1..gffIdx are the lines whose annotation was pushed; when the     *)
(* call returned an error, gffResult.line is the line that failed.         *)
(***************************************************************************)
GffFailed == gffPc = "done" /\ gffResult.state = "err"
GffSucceeded == gffPc = "done" /\ gffResult.state = "ok"
FailedLine == gffInput[gffResult.line]

RecognizedFeatures == {TokStartCodon, TokStopCodon, TokCDS, TokExon}

WellFormedNumber(tok) ==
    /\ Len(tok) > 0
    /\ tok # <<"+">>
    /\ \A k \in 1..Len(tok) : tok[k] \in DigitChars \/ (k = 1 /\ tok[k] = "+")

WellFormedStrand(tok) == tok \in {<<"+">>, <<"-">>}
WellFormedScore(tok) == tok = <<".">> \/ WellFormedNumber(tok)

\* The strand, score, end and start of a record pass their checks.
CoordinatesValid(line) ==
    /\ WellFormedStrand(line[7])
    /\ WellFormedScore(line[6])
    /\ WellFormedNumber(line[5])
    /\ WellFormedNumber(line[4])
    /\ ParseValue(line[4]) >= 1
    /\ ParseValue(line[4]) - 1 < ParseValue(line[5])

\* C1 as stated: every line with fewer or more than 9 tab-separated fields
\* fails with the field-count error reporting 9 and the actual count.
C1_ExactlyNineFields ==
    /\ \A k \in 1..gffIdx : Len(gffInput[k]) = 9
    /\ GffFailed /\ Len(FailedLine) # 9 =>
          /\ gffResult.root.kind = "ColumnCount"
          /\ gffResult.root.a = 9
          /\ gffResult.root.b = Len(FailedLine)

\* C1 amended: a line is accepted only if it has at least 9 tab-separated
\* fields; a line with fewer than 9 fails with the field-count error
\* reporting 9 and the actual count; a line with more than 9 never gets the
\* field-count error and is parsed as the record of its first 9 fields.
C1_AtLeastNineFields ==
    /\ \A k \in 1..gffIdx :
          /\ Len(gffInput[k]) >= 9
          /\ annotations[k] = parse_gff_line(SubSeq(gffInput[k], 1, 9)).ann
    /\ GffFailed /\ Len(FailedLine) < 9 =>
          /\ gffResult.root.kind = "ColumnCount"
          /\ gffResult.root.a = 9
          /\ gffResult.root.b = Len(FailedLine)
    /\ GffFailed /\ Len(FailedLine) >= 9 =>
          /\ gffResult.root.kind # "ColumnCount"
          /\ gffResult.root = parse_gff_line(SubSeq(FailedLine, 1, 9)).err

\* A 10-field line was accepted and the next line, of 8 fields, failed.
C1_Witness ==
    /\ GffFailed
    /\ gffResult.line = 2
    /\ Len(gffInput[1]) = 10
    /\ Len(annotations) = 1
    /\ Len(FailedLine) = 8
    /\ gffResult.root.kind = "ColumnCount"

\* C2 as stated: every 9-field record with an unrecognized feature token
\* fails, with the unrecognized-feature error naming the token as root cause
\* and the record's line number in the context.
C2_UnrecognizedFeatureIsRootCause ==
    /\ \A k \in 1..gffIdx : Len(gffInput[k]) = 9 => gffInput[k][3] \in RecognizedFeatures
    /\ GffFailed /\ Len(FailedLine) = 9 /\ FailedLine[3] \notin RecognizedFeatures =>
          /\ gffResult.root.kind = "UnrecognizedFeature"
          /\ gffResult.root.token = FailedLine[3]
          /\ gffResult.line = gffIdx + 1

\* C2 amended: every 9-field record with an unrecognized feature token
\* fails, and the context names the record's line number; the root cause is
\* the unrecognized-feature error naming the token when the record's strand,
\* score, end and start are well-formed with start >= 1 and start - 1 < end
\* (these are checked before the feature, and the first failed check is the
\* root cause).
C2_UnrecognizedFeatureAfterOtherChecks ==
    /\ \A k \in 1..gffIdx : Len(gffInput[k]) = 9 => gffInput[k][3] \in RecognizedFeatures
    /\ GffFailed /\ Len(FailedLine) = 9 /\ FailedLine[3] \notin RecognizedFeatures =>
          /\ gffResult.line = gffIdx + 1
          /\ CoordinatesValid(FailedLine) =>
                /\ gffResult.root.kind = "UnrecognizedFeature"
                /\ gffResult.root.token = FailedLine[3]
          /\ ~CoordinatesValid(FailedLine) =>
                gffResult.root.kind \in {"InvalidStrand", "ScoreNotInteger", "EndNotInteger",
                                         "StartNotInteger", "StartIsZero", "StartNotBeforeEnd"}

\* As in tests/invalid.gff: line 2 has feature XXX, otherwise valid.
C2_Witness ==
    /\ GffFailed
    /\ gffResult.line = 2
    /\ Len(FailedLine) = 9
    /\ FailedLine[3] = <<"X", "X", "X">>
    /\ CoordinatesValid(FailedLine)
    /\ gffResult.root.kind = "UnrecognizedFeature"

\* C3: every Annotation has start < end, start = wire start - 1 and
\* end = wire end; no record with wire start - 1 >= wire end produces one.
C3_StartBeforeEnd ==
    /\ \A k \in 1..Len(annotations) :
          /\ annotations[k].start < annotations[k].end
          /\ annotations[k].start = ParseValue(gffInput[k][4]) - 1
          /\ annotations[k].end = ParseValue(gffInput[k][5])
          /\ annotations[k].start >= 0
    /\ GffSucceeded => gffResult.value = annotations

\* An annotation of one symbol (start + 1 = end) was returned, and a record
\* with start - 1 = end was rejected.
C3_Witness ==
    /\ GffSucceeded
    /\ Len(gffResult.value) = 2
    /\ gffResult.value[1].start + 1 = gffResult.value[1].end
    /\ gffResult.value[2].start = 1
    /\ gffResult.value[2].end = 10

\* C4: fail-fast.  An invalid line makes the call return an error and no
\* annotations, the context names the earliest invalid line, no later line
\* is processed; with no invalid line the call returns one Annotation per
\* line in stream order.
InvalidLines == {k \in 1..Len(gffInput) : ~parse_gff_line(gffInput[k]).ok}

C4_FailFast ==
    /\ \A k \in InvalidLines : gffIdx < k
    /\ gffPc = "done" /\ InvalidLines # {} =>
          /\ gffResult.state = "err"
          /\ gffResult.value = <<>>
          /\ gffResult.line \in InvalidLines
          /\ \A k \in InvalidLines : gffResult.line <= k
          /\ gffIdx = gffResult.line - 1
    /\ gffPc = "done" /\ InvalidLines = {} =>
          /\ gffResult.state = "ok"
          /\ Len(gffResult.value) = Len(gffInput)
          /\ \A k \in 1..Len(gffInput) :
                gffResult.value[k] = parse_gff_line(gffInput[k]).ann
    /\ gffPc = "done" => ~ENABLED NextGff

\* Line 1 is invalid and line 2, which is valid, was never processed.
C4_Witness ==
    /\ GffFailed
    /\ gffResult.line = 1
    /\ Len(gffInput) = 2
    /\ parse_gff_line(gffInput[2]).ok
    /\ annotations = <<>>

\* C8: with the other eight fields valid, phase "0", "1", "2" map to Zero,
\* One, Two and every other token gives a successful parse with phase
\* absent; no phase token causes an error.
PhaseOfToken(tok) ==
    IF tok = <<"0">> THEN "Zero"
    ELSE IF tok = <<"1">> THEN "One"
    ELSE IF tok = <<"2">> THEN "Two"
    ELSE "None"

OtherEightValid(line) ==
    /\ Len(line) = 9
    /\ CoordinatesValid(line)
    /\ line[3] \in RecognizedFeatures

C8_PhaseNeverFails ==
    /\ \A k \in 1..gffIdx : annotations[k].phase = PhaseOfToken(gffInput[k][8])
    /\ GffFailed => ~OtherEightValid(FailedLine)

\* Two records with malformed phase tokens ("01" and "") were parsed, with
\* phase absent.
C8_Witness ==
    /\ GffSucceeded
    /\ Len(gffResult.value) = 2
    /\ gffInput[1][8] = <<"0", "1">>
    /\ gffInput[2][8] = <<>>
    /\ gffResult.value[1].phase = "None"
    /\ gffResult.value[2].phase = "None"

\* C10: a 9-field record with start "0" and well-formed strand, score and
\* end fails with the start-is-zero error whatever end is; it never gives the
\* start >= end error nor an Annotation, and 1 is never subtracted from 0.
StartZeroRecord(line) ==
    /\ Len(line) = 9
    /\ line[4] = <<"0">>
    /\ WellFormedStrand(line[7])
    /\ WellFormedScore(line[6])
    /\ WellFormedNumber(line[5])

C10_StartZero ==
    /\ \A k \in 1..gffIdx : ~StartZeroRecord(gffInput[k]) /\ annotations[k].start >= 0
    /\ GffFailed /\ StartZeroRecord(FailedLine) => gffResult.root.kind = "StartIsZero"
    /\ GffFailed /\ gffResult.root.kind = "StartNotBeforeEnd" => gffResult.root.a >= 0

\* A record with start "0" and end "10" (so that -1 < end and 0 < end) failed
\* with the start-is-zero error.
C10_Witness ==
    /\ GffFailed
    /\ StartZeroRecord(FailedLine)
    /\ FailedLine[5] = <<"1", "0">>
    /\ gffResult.root.kind = "StartIsZero"

(***************************************************************************)
(* Properties of the FASTA parser and of the symbol encoding.              *)
(*                                                                         *)
(* The expected result is computed from the file itself: the text of a     *)
(* line is the raw line without its "\n" or "\r\n", a header line is one   *)
(* whose text begins with '>', the other lines are body lines.             *)
(***************************************************************************)
LineText(raw) ==
    IF Len(raw) >= 2 /\ raw[Len(raw) - 1] = CR /\ raw[Len(raw)] = LF
    THEN SubSeq(raw, 1, Len(raw) - 2)
    ELSE IF Len(raw) >= 1 /\ raw[Len(raw)] = LF
    THEN SubSeq(raw, 1, Len(raw) - 1)
    ELSE raw

IsHeaderLine(k) == Len(LineText(fastaInput[k])) > 0 /\ LineText(fastaInput[k])[1] = ">"
HeaderLines == {k \in 1..Len(fastaInput) : IsHeaderLine(k)}
BodyLines == {k \in 1..Len(fastaInput) : ~IsHeaderLine(k)}

\* The line of the i-th header, and the line after the body of the i-th
\* header.
HeaderAt(i) == CHOOSE k \in HeaderLines : Cardinality({j \in HeaderLines : j <= k}) = i
BodyEnd(i) == IF i < Cardinality(HeaderLines) THEN HeaderAt(i + 1) ELSE Len(fastaInput) + 1

RECURSIVE TextOfLines(_, _)
TextOfLines(lo, hi) ==
    IF lo >= hi THEN <<>> ELSE LineText(fastaInput[lo]) \o TextOfLines(lo + 1, hi)

\* The characters of the body lines of the i-th header, in order.
BodyOf(i) == TextOfLines(HeaderAt(i) + 1, BodyEnd(i))

BodyAlphabet == {"A", "a", "C", "c", "T", "t", "G", "g", "N", "n"}

DocumentedSymbol(c) ==
    IF c \in {"A", "a"} THEN "Adenine"
    ELSE IF c \in {"C", "c"} THEN "Cytosine"
    ELSE IF c \in {"T", "t"} THEN "Thymine"
    ELSE IF c \in {"G", "g"} THEN "Guanine"
    ELSE IF c \in {"N", "n"} THEN "Other"
    ELSE "undocumented"

DocumentedCode(c) ==
    IF c \in {"A", "a"} THEN 0
    ELSE IF c \in {"C", "c"} THEN 2
    ELSE IF c \in {"T", "t"} THEN 1
    ELSE IF c \in {"G", "g"} THEN 3
    ELSE IF c \in {"N", "n"} THEN 4
    ELSE -1

FastaReturned == fastaPc \in {"done", "encoded"}
FastaSucceeded == FastaReturned /\ fastaResult.state = "ok"
FastaFailed == FastaReturned /\ fastaResult.state = "err"

\* C5: on success there is one scaffold per header line, in header order;
\* the i-th name is the i-th header line without its '>', the i-th sequence
\* is the mapped characters of the body lines up to the next header, so its
\* length is the number of characters on those lines.
C5_ScaffoldPerHeader ==
    FastaSucceeded =>
        /\ Len(fastaResult.value) = Cardinality(HeaderLines)
        /\ \A i \in 1..Len(fastaResult.value) :
              /\ fastaResult.value[i].name = Tail(LineText(fastaInput[HeaderAt(i)]))
              /\ Len(fastaResult.value[i].sequence) = Len(BodyOf(i))
              /\ \A j \in 1..Len(BodyOf(i)) :
                    fastaResult.value[i].sequence[j] = DocumentedSymbol(BodyOf(i)[j])

\* Two scaffolds: the first with two body lines, the second, named by a
\* header ending "\r\n", with none.
C5_Witness ==
    /\ FastaSucceeded
    /\ Len(fastaInput) = 4
    /\ Len(fastaResult.value) = 2
    /\ Len(fastaResult.value[1].sequence) = 7
    /\ fastaResult.value[2].name = <<"t", " ", "d">>
    /\ fastaResult.value[2].sequence = <<>>

\* C6: the parse fails on an empty stream, on a stream without header line
\* and on a stream with a body line (an empty line included) before the
\* first header; a successful parse implies that the first line is a header.
C6_HeaderFirst ==
    /\ FastaReturned /\ (Len(fastaInput) = 0 \/ HeaderLines = {} \/ ~IsHeaderLine(1)) =>
          /\ fastaResult.state = "err"
          /\ fastaResult.value = <<>>
          /\ fastaResult.kind = IF Len(fastaInput) = 0 THEN "EmptyFasta" ELSE "InvalidFasta"
    /\ FastaSucceeded => Len(fastaInput) > 0 /\ IsHeaderLine(1)
    /\ fastaResult.state = "ok" => FastaReturned

\* An empty line before the first header made the parse fail.
C6_Witness ==
    /\ FastaFailed
    /\ Len(fastaInput) >= 2
    /\ fastaInput[1] = <<LF>>
    /\ IsHeaderLine(2)
    /\ fastaResult.kind = "InvalidFasta"

\* The body lines holding a character outside the alphabet, and the first
\* such character in stream order.
BadBodyLines ==
    {k \in BodyLines :
        \E j \in 1..Len(LineText(fastaInput[k])) : LineText(fastaInput[k])[j] \notin BodyAlphabet}

FirstBadLine == LineText(fastaInput[CHOOSE k \in BadBodyLines : \A j \in BadBodyLines : k <= j])

FirstBadChar ==
    FirstBadLine[CHOOSE j \in 1..Len(FirstBadLine) :
                    /\ FirstBadLine[j] \notin BodyAlphabet
                    /\ \A h \in 1..(j - 1) : FirstBadLine[h] \in BodyAlphabet]

\* C7 as stated: a body line with a character outside the alphabet makes the
\* parse fail with an error that identifies the first such character, and no
\* scaffolds are returned.
C7_InvalidSymbolIdentified ==
    FastaReturned /\ BadBodyLines # {} =>
        /\ fastaResult.state = "err"
        /\ fastaResult.value = <<>>
        /\ fastaResult.kind = "InvalidSymbol"
        /\ fastaResult.char = FirstBadChar

\* C7 amended: a body line with a character outside the alphabet makes the
\* parse fail and no scaffolds are returned; the error identifies the first
\* such character when the first line of the stream is a header line, and is
\* the body-before-header error, which names no character, when it is not.
C7_InvalidSymbolAfterHeader ==
    FastaReturned /\ BadBodyLines # {} =>
        /\ fastaResult.state = "err"
        /\ fastaResult.value = <<>>
        /\ IsHeaderLine(1) =>
              /\ fastaResult.kind = "InvalidSymbol"
              /\ fastaResult.char = FirstBadChar
        /\ ~IsHeaderLine(1) =>
              /\ fastaResult.kind = "InvalidFasta"
              /\ fastaResult.char = ""

\* A scaffold was completed and pushed before the line "gXZ" failed with the
\* error naming X; nothing is returned.
C7_Witness ==
    /\ FastaFailed
    /\ Len(scaffolds) = 1
    /\ Len(scaffolds[1].sequence) = 5
    /\ fastaInput[4] = <<"g", "X", "Z", LF>>
    /\ fastaResult.kind = "InvalidSymbol"
    /\ fastaResult.char = "X"
    /\ fastaResult.value = <<>>

\* C9: the mapping of body characters is case-insensitive and total on
\* A, C, T, G, N; the codes are Adenine=0, Thymine=1, Cytosine=2, Guanine=3,
\* Other=4, so that A, C, T, G, N encode to 0, 2, 1, 3, 4; the code mapping is
\* injective with range 0..4.
C9_SymbolEncoding ==
    /\ builder.some => \A j \in 1..Len(builder.sequence) : builder.sequence[j] \in Symbols
    /\ fastaPc = "encoded" =>
          /\ Len(encoded) = Len(fastaResult.value)
          /\ \A i \in 1..Len(encoded) :
                /\ Len(encoded[i]) = Len(BodyOf(i))
                /\ \A j \in 1..Len(encoded[i]) :
                      /\ fastaResult.value[i].sequence[j] = DocumentedSymbol(BodyOf(i)[j])
                      /\ encoded[i][j] = DocumentedCode(BodyOf(i)[j])
          /\ {SymbolCode(x) : x \in Symbols} = 0..4
          /\ \A x, y \in Symbols : SymbolCode(x) = SymbolCode(y) => x = y

\* The lines "ACTGN" and "actgn" of one scaffold were encoded.
C9_Witness ==
    /\ fastaPc = "encoded"
    /\ Len(encoded) = 1
    /\ encoded[1] = <<0, 2, 1, 3, 4, 0, 2, 1, 3, 4>>
    /\ BodyOf(1) = <<"A", "C", "T", "G", "N", "a", "c", "t", "g", "n">>

====
